---- MODULE Spec2Model ----
(***************************************************************************)
(* Model of the LEMP + WordPress installer (src/main.py): the step         *)
(* pipeline of main(), the effectful helpers (run_cmd, mysql_exec,         *)
(* atomic_write, remove_path, backup_path), cleanup_full and the signal    *)
(* handler, over an abstract host (web root, site configuration, database, *)
(* temp directory, temp files).                                            *)
(***************************************************************************)
EXTENDS Integers, Sequences, FiniteSets, TLC

\* ------------------------------------------------------------------------
\* Bounds
\* ------------------------------------------------------------------------
\* number of SIGINT/SIGTERM deliveries explored in one run
MaxSignals == 2

\* ------------------------------------------------------------------------
\* State
\* ------------------------------------------------------------------------
VARIABLES
    cfg,         \* the resolved configuration: dry_run, overwrite
    state,       \* the global run state dictionary
    webroot,     \* /var/www/<domain>: "absent", "pre", "created", "deployed"
    files,       \* content of nginx_conf, php_ini, wp_config
    tmpfiles,    \* content of the .tmp.<name>.<timestamp> sibling of each file
    bak,         \* a <nginx_conf>.bak-<timestamp> file holding the old content
    symlink,     \* /etc/nginx/sites-enabled/<domain> is present
    db,          \* database and user: "absent", "pre", "run"
    tmpdir,      \* the wpdl_* directory made by tempfile.mkdtemp exists
    cmds,        \* external commands and SQL statements really spawned
    pc,          \* position of main()
    step,        \* index of the step main() is in (0 before the first)
    awPath,      \* atomic_write: the file being written
    awRet,       \* atomic_write: where the caller continues
    awPrev,      \* atomic_write: content of the destination at the call
    stack,       \* active cleanup_full invocations, innermost last
    signals,     \* signals delivered so far
    exitCode,    \* -1 while the process runs, then its exit status
    pendingExit, \* exit status carried through main()'s finally clause
    cleanups,    \* number of cleanup_full invocations
    started,     \* how many times each step has been entered
    failedStep,  \* index of the step that raised (0: none)
    exc,         \* kind of the exception the failed step raised
    hist,        \* per resource: existed at step entry, removed, recreated;
                 \* and: the user declined, the step error was logged, an
                 \* undo operation failed, where main() stood when the
                 \* first signal arrived
    pre          \* the host as it was before the run

vars == <<cfg, state, webroot, files, tmpfiles, bak, symlink, db, tmpdir,
          cmds, pc, step, awPath, awRet, awPrev, stack, signals, exitCode,
          pendingExit, cleanups, started, failedStep, exc, hist, pre>>

hostVars == <<webroot, files, tmpfiles, bak, symlink, db, tmpdir>>
awVars   == <<awPath, awRet, awPrev>>
sigVars  == <<stack, signals, cleanups>>
exitVars == <<exitCode, pendingExit>>

FileNames == {"nginx_conf", "php_ini", "wp_config"}
Resources == {"db", "webroot", "conf"}
Steps     == 1..8
Undos     == {"webroot", "symlink", "conf", "db", "tmp"}

\* the observable host
Host == [webroot |-> webroot, files |-> files, tmpfiles |-> tmpfiles,
         bak |-> bak, symlink |-> symlink, db |-> db, tmpdir |-> tmpdir]

\* the global `state` dictionary as the module defines it
InitialState ==
    [created_paths |-> <<>>, created_db |-> FALSE, db_name |-> "None",
     db_user |-> "None", nginx_conf_path |-> "None", web_root |-> "None",
     tmp_dirs |-> <<>>, executing |-> FALSE, overwrite |-> FALSE,
     last_cfg |-> FALSE]

Init ==
    /\ cfg \in [dry_run : BOOLEAN, overwrite : BOOLEAN]
    /\ state = InitialState
    /\ webroot \in {"absent", "pre"}
    /\ \E c \in {"absent", "old"} :
          files = [f \in FileNames |-> IF f = "nginx_conf" THEN c ELSE "absent"]
    /\ tmpfiles = [f \in FileNames |-> "absent"]
    /\ bak = FALSE
    /\ symlink = FALSE
    /\ db \in {"absent", "pre"}
    /\ tmpdir = FALSE
    /\ cmds = {}
    /\ pc = "main"
    /\ step = 0
    /\ awPath = "None"
    /\ awRet = "None"
    /\ awPrev = "None"
    /\ stack = <<>>
    /\ signals = 0
    /\ exitCode = -1
    /\ pendingExit = -1
    /\ cleanups = 0
    /\ started = [k \in Steps |-> 0]
    /\ failedStep = 0
    /\ exc = "None"
    /\ hist = [existed   |-> [r \in Resources |-> FALSE],
               removed   |-> [r \in Resources |-> FALSE],
               recreated |-> [r \in Resources |-> FALSE],
               declined |-> FALSE, reported |-> FALSE, undo_failed |-> FALSE,
               sig_pc |-> "none"]
    /\ pre = Host

\* ------------------------------------------------------------------------
\* Helpers shared by the effectful functions
\* ------------------------------------------------------------------------
\* the test every helper makes: `if dry_run and not state.get("executing")`
Simulate(dry_run) == dry_run /\ ~state.executing

\* main() runs only while no cleanup frame is above it
MainRuns == exitCode = -1 /\ stack = <<>>

\* exit statuses a spawned command may end with
ExitStatuses == {0, 1, 2}

\* run_cmd never raising on a non-zero status
run_cmd_result_unchecked(status, check, dry_run) ==
    IF Simulate(dry_run)
    THEN [spawned |-> FALSE, raised |-> FALSE, returncode |-> 0]
    ELSE [spawned |-> TRUE, raised |-> FALSE, returncode |-> status]

\* what run_cmd does for a command that would end with `status`: when
\* simulating it returns CompletedProcess(returncode=0) without spawning;
\* otherwise subprocess.run(check=check) raises CalledProcessError on a
\* non-zero status if check is set, and returns the result if not
run_cmd_result(status, check, dry_run) ==
    IF Simulate(dry_run)
    THEN [spawned |-> FALSE, raised |-> FALSE, returncode |-> 0]
    ELSE [spawned |-> TRUE, raised |-> status # 0 /\ check,
          returncode |-> status]

\* outcomes of an external operation run with check=True: it cannot fail
\* when it is not spawned
Outcomes(dry_run) ==
    {~run_cmd_result(st, TRUE, dry_run).raised : st \in ExitStatuses}

\* run_cmd / mysql_exec: the command is spawned unless simulating
run_cmd(c, dry_run) == IF Simulate(dry_run) THEN cmds ELSE cmds \cup {c}

\* mysql_exec sending the statement whatever the mode
mysql_exec_any_mode(c, dry_run) == cmds \cup {c}

mysql_exec(c, dry_run) == IF Simulate(dry_run) THEN cmds ELSE cmds \cup {c}

\* an exception raised in step k leaves it and reaches main()'s except clause
RaiseIn(k, kind) ==
    /\ pc' = "except"
    /\ failedStep' = k
    /\ exc' = kind

\* an exception raised further inside the step main() is in
Raise(kind) == RaiseIn(step, kind)

\* entering step k
Enter(k) ==
    /\ step' = k
    /\ started' = [started EXCEPT ![k] = @ + 1]

histVars == <<hist, pre>>
failVars == <<failedStep, exc>>

\* ------------------------------------------------------------------------
\* main(): argument handling up to the first step
\* ------------------------------------------------------------------------
\* cfg is built and stashed in state["last_cfg"] for the signal handler
main_store_cfg ==
    /\ MainRuns /\ pc = "main"
    /\ state' = [state EXCEPT !.last_cfg = TRUE, !.overwrite = cfg.overwrite]
    /\ pc' = "confirm"
    /\ UNCHANGED <<cfg, hostVars, cmds, step, awVars, sigVars, exitVars,
                   started, failVars, histVars>>

\* the prompt warning about the refusal and going on with the installation
main_confirm_goes_on ==
    /\ MainRuns /\ pc = "confirm"
    /\ IF cfg.dry_run
       THEN pc' = "ensure_root" /\ UNCHANGED <<exitVars, hist>>
       ELSE \E resp \in {"y", "n"} :
              IF resp = "y"
              THEN pc' = "ensure_root" /\ UNCHANGED <<exitVars, hist>>
              ELSE /\ pc' = "ensure_root"
                   /\ hist' = [hist EXCEPT !.declined = TRUE]
                   /\ UNCHANGED exitVars
    /\ UNCHANGED <<cfg, state, hostVars, cmds, step, awVars, sigVars,
                   started, failVars, pre>>

\* in execute mode the user is asked; anything but "y" exits 0
main_confirm ==
    /\ MainRuns /\ pc = "confirm"
    /\ IF cfg.dry_run
       THEN pc' = "ensure_root" /\ UNCHANGED <<exitVars, hist>>
       ELSE \E resp \in {"y", "n"} :
              IF resp = "y"
              THEN pc' = "ensure_root" /\ UNCHANGED <<exitVars, hist>>
              ELSE /\ pc' = "exited" /\ exitCode' = 0
                   /\ hist' = [hist EXCEPT !.declined = TRUE]
                   /\ UNCHANGED pendingExit
    /\ UNCHANGED <<cfg, state, hostVars, cmds, step, awVars, sigVars,
                   started, failVars, pre>>

\* not enforced in dry-run; otherwise a non-root caller exits 1
ensure_root ==
    /\ MainRuns /\ pc = "ensure_root"
    /\ IF cfg.dry_run
       THEN pc' = "set_executing" /\ UNCHANGED exitVars
       ELSE \E euid0 \in BOOLEAN :
              IF euid0
              THEN pc' = "set_executing" /\ UNCHANGED exitVars
              ELSE pc' = "exited" /\ exitCode' = 1 /\ UNCHANGED pendingExit
    /\ UNCHANGED <<cfg, state, hostVars, cmds, step, awVars, sigVars,
                   started, failVars, histVars>>

main_set_executing ==
    /\ MainRuns /\ pc = "set_executing"
    /\ state' = [state EXCEPT !.executing = ~cfg.dry_run]
    /\ pc' = "step1"
    /\ UNCHANGED <<cfg, hostVars, cmds, step, awVars, sigVars, exitVars,
                   started, failVars, histVars>>

\* ------------------------------------------------------------------------
\* Steps 1 to 4: package installation
\* ------------------------------------------------------------------------
step_update_system ==
    /\ MainRuns /\ pc = "step1"
    /\ Enter(1)
    /\ cmds' = run_cmd("apt_upgrade", cfg.dry_run)
    /\ \E ok \in Outcomes(cfg.dry_run) :
          IF ok THEN pc' = "step2" /\ UNCHANGED failVars
                ELSE RaiseIn(1, "CommandFailed")
    /\ UNCHANGED <<cfg, state, hostVars, awVars, sigVars, exitVars, histVars>>

step_install_nginx ==
    /\ MainRuns /\ pc = "step2"
    /\ Enter(2)
    /\ cmds' = run_cmd("nginx_install", cfg.dry_run)
    /\ \E ok \in Outcomes(cfg.dry_run) :
          IF ok THEN pc' = "step3" /\ UNCHANGED failVars
                ELSE RaiseIn(2, "CommandFailed")
    /\ UNCHANGED <<cfg, state, hostVars, awVars, sigVars, exitVars, histVars>>

\* apt install, then (execute mode only) the statements securing the server
step_install_mysql ==
    /\ MainRuns /\ pc = "step3"
    /\ Enter(3)
    /\ \E ok \in Outcomes(cfg.dry_run) :
          IF ~ok
          THEN /\ cmds' = run_cmd("mysql_install", cfg.dry_run)
               /\ RaiseIn(3, "CommandFailed")
          ELSE /\ pc' = "step4" /\ UNCHANGED failVars
               /\ cmds' = IF cfg.dry_run
                          THEN run_cmd("mysql_install", cfg.dry_run)
                          ELSE mysql_exec("mysql_secure", cfg.dry_run)
                                  \cup run_cmd("mysql_install", cfg.dry_run)
    /\ UNCHANGED <<cfg, state, hostVars, awVars, sigVars, exitVars, histVars>>

\* apt install; in execute mode php.ini, when it exists, is rewritten with
\* atomic_write
step_install_php ==
    /\ MainRuns /\ pc = "step4"
    /\ Enter(4)
    /\ cmds' = run_cmd("php_install", cfg.dry_run)
    /\ \E ok \in Outcomes(cfg.dry_run) :
          IF ~ok
          THEN RaiseIn(4, "CommandFailed") /\ UNCHANGED <<files, awVars>>
          ELSE /\ UNCHANGED failVars
               /\ IF cfg.dry_run
                  THEN pc' = "step4_restart" /\ UNCHANGED <<files, awVars>>
                  ELSE \E exists \in BOOLEAN :
                         IF exists
                         THEN /\ files' = [files EXCEPT !["php_ini"] = "old"]
                              /\ awPath' = "php_ini"
                              /\ awRet' = "step4_restart"
                              /\ awPrev' = "old"
                              /\ pc' = "atomic_write"
                         ELSE /\ pc' = "step4_restart"
                              /\ UNCHANGED <<files, awVars>>
    /\ UNCHANGED <<cfg, state, webroot, tmpfiles, bak, symlink, db, tmpdir,
                   sigVars, exitVars, histVars>>

step_install_php_restart ==
    /\ MainRuns /\ pc = "step4_restart"
    /\ cmds' = run_cmd("php_restart", cfg.dry_run)
    /\ \E ok \in Outcomes(cfg.dry_run) :
          IF ok THEN pc' = "step5" /\ UNCHANGED failVars
                ELSE Raise("CommandFailed")
    /\ UNCHANGED <<cfg, state, hostVars, step, started, awVars, sigVars,
                   exitVars, histVars>>

\* ------------------------------------------------------------------------
\* atomic_write(path, data): temp file, write, chmod, os.replace
\* ------------------------------------------------------------------------
\* variant: the destination itself is opened "w" and written in place
atomic_write_in_place ==
    /\ MainRuns /\ pc = "atomic_write"
    /\ IF Simulate(cfg.dry_run)
       THEN pc' = awRet /\ UNCHANGED <<files, tmpfiles, failVars>>
       ELSE /\ files' = [files EXCEPT ![awPath] = "partial"]
            /\ tmpfiles' = [tmpfiles EXCEPT ![awPath] = "partial"]
            /\ pc' = "aw_write" /\ UNCHANGED failVars
    /\ UNCHANGED <<cfg, state, webroot, bak, symlink, db, tmpdir, cmds,
                   step, started, awVars, sigVars, exitVars, histVars>>

\* entry: nothing when simulating; otherwise the temp file is opened "w"
\* next to the destination (created empty)
atomic_write ==
    /\ MainRuns /\ pc = "atomic_write"
    /\ IF Simulate(cfg.dry_run)
       THEN pc' = awRet /\ UNCHANGED <<tmpfiles, failVars>>
       ELSE \E ok \in BOOLEAN :
              IF ok
              THEN /\ tmpfiles' = [tmpfiles EXCEPT ![awPath] = "partial"]
                   /\ pc' = "aw_write" /\ UNCHANGED failVars
              ELSE Raise("IOError") /\ UNCHANGED tmpfiles
    /\ UNCHANGED <<cfg, state, webroot, files, bak, symlink, db, tmpdir, cmds,
                   step, started, awVars, sigVars, exitVars, histVars>>

\* f.write(data) and close: an I/O error leaves what was written so far
atomic_write_write ==
    /\ MainRuns /\ pc = "aw_write"
    /\ \E ok \in BOOLEAN :
          IF ok
          THEN /\ tmpfiles' = [tmpfiles EXCEPT ![awPath] = "full"]
               /\ pc' = "aw_chmod" /\ UNCHANGED failVars
          ELSE Raise("IOError") /\ UNCHANGED tmpfiles
    /\ UNCHANGED <<cfg, state, webroot, files, bak, symlink, db, tmpdir, cmds,
                   step, started, awVars, sigVars, exitVars, histVars>>

atomic_write_chmod ==
    /\ MainRuns /\ pc = "aw_chmod"
    /\ \E ok \in BOOLEAN :
          IF ok THEN pc' = "aw_replace" /\ UNCHANGED failVars
                ELSE Raise("IOError")
    /\ UNCHANGED <<cfg, state, hostVars, cmds, step, started, awVars, sigVars,
                   exitVars, histVars>>

\* os.replace(tmp, p): the rename puts the whole new content in place
atomic_write_replace ==
    /\ MainRuns /\ pc = "aw_replace"
    /\ \E ok \in BOOLEAN :
          IF ok
          THEN /\ files' = [files EXCEPT ![awPath] =
                              IF tmpfiles[awPath] = "full" THEN "new"
                              ELSE tmpfiles[awPath]]
               /\ tmpfiles' = [tmpfiles EXCEPT ![awPath] = "absent"]
               /\ hist' = IF awPath = "nginx_conf"
                          THEN [hist EXCEPT !.recreated["conf"] = TRUE]
                          ELSE hist
               /\ pc' = awRet /\ UNCHANGED failVars
          ELSE Raise("IOError") /\ UNCHANGED <<files, tmpfiles, hist>>
    /\ UNCHANGED <<cfg, state, webroot, bak, symlink, db, tmpdir, cmds, step,
                   started, awVars, sigVars, exitVars, pre>>

\* ------------------------------------------------------------------------
\* Step 5: step_create_database
\* ------------------------------------------------------------------------
\* variant: the DROP statements under overwrite are left out
step_create_database_no_drop ==
    /\ MainRuns /\ pc = "step5"
    /\ Enter(5)
    /\ state' = [state EXCEPT !.db_name = "wordpress", !.db_user = "wpuser"]
    /\ pc' = "step5_create"
    /\ hist' = [hist EXCEPT !.existed["db"] = (db # "absent")]
    /\ UNCHANGED <<cfg, hostVars, cmds, failVars, awVars, sigVars, exitVars,
                   pre>>

\* names recorded; with overwrite the existing database and user are dropped
step_create_database ==
    /\ MainRuns /\ pc = "step5"
    /\ Enter(5)
    /\ state' = [state EXCEPT !.db_name = "wordpress", !.db_user = "wpuser"]
    /\ IF cfg.overwrite
       THEN /\ cmds' = mysql_exec("sql_drop", cfg.dry_run)
            /\ \E ok \in Outcomes(cfg.dry_run) :
                  IF ~ok
                  THEN /\ RaiseIn(5, "CommandFailed")
                       /\ db' = db
                       /\ hist' = [hist EXCEPT !.existed["db"] = (db # "absent")]
                  ELSE /\ pc' = "step5_create" /\ UNCHANGED failVars
                       /\ db' = IF Simulate(cfg.dry_run) THEN db ELSE "absent"
                       /\ hist' = [hist EXCEPT
                                     !.existed["db"] = (db # "absent"),
                                     !.removed["db"] = ~Simulate(cfg.dry_run)]
       ELSE /\ pc' = "step5_create"
            /\ hist' = [hist EXCEPT !.existed["db"] = (db # "absent")]
            /\ UNCHANGED <<cmds, db, failVars>>
    /\ UNCHANGED <<cfg, webroot, files, tmpfiles, bak, symlink, tmpdir,
                   awVars, sigVars, exitVars, pre>>

\* CREATE DATABASE IF NOT EXISTS; CREATE USER IF NOT EXISTS; GRANT; FLUSH.
\* A failing client may already have run the first statements.
step_create_database_create ==
    /\ MainRuns /\ pc = "step5_create"
    /\ cmds' = mysql_exec("sql_create", cfg.dry_run)
    /\ \E ok \in Outcomes(cfg.dry_run) :
          IF ok
          THEN /\ pc' = "step5_record" /\ UNCHANGED failVars
               /\ db' = IF Simulate(cfg.dry_run) \/ db # "absent" THEN db ELSE "run"
               /\ hist' = [hist EXCEPT
                             !.recreated["db"] = ~Simulate(cfg.dry_run)]
          ELSE /\ Raise("CommandFailed")
               /\ \E partial \in BOOLEAN :
                     /\ db' = IF partial /\ db = "absent" THEN "run" ELSE db
                     /\ hist' = [hist EXCEPT !.recreated["db"] = partial]
    /\ UNCHANGED <<cfg, state, webroot, files, tmpfiles, bak, symlink, tmpdir,
                   step, started, awVars, sigVars, exitVars, pre>>

\* step 5 returning to the call of step 7, past step 6
step_create_database_record_skip ==
    /\ MainRuns /\ pc = "step5_record"
    /\ state' = [state EXCEPT !.created_db = TRUE]
    /\ pc' = "step7"
    /\ UNCHANGED <<cfg, hostVars, cmds, step, started, awVars, sigVars,
                   exitVars, failVars, histVars>>

\* state["created_db"] = True, after the statements have run
step_create_database_record ==
    /\ MainRuns /\ pc = "step5_record"
    /\ state' = [state EXCEPT !.created_db = TRUE]
    /\ pc' = "step6"
    /\ UNCHANGED <<cfg, hostVars, cmds, step, started, awVars, sigVars,
                   exitVars, failVars, histVars>>

\* ------------------------------------------------------------------------
\* remove_path on the web root: the tree goes with the files inside it
\* ------------------------------------------------------------------------
webroot_removed ==
    /\ webroot' = "absent"
    /\ files' = [files EXCEPT !["wp_config"] = "absent"]
    /\ tmpfiles' = [tmpfiles EXCEPT !["wp_config"] = "absent"]

\* step 6 testing for an existing web root only when it is not simulating
step_download_and_install_wp_plan_only ==
    /\ MainRuns /\ pc = "step6"
    /\ Enter(6)
    /\ state' = [state EXCEPT !.web_root = "/var/www/domain"]
    /\ IF webroot # "absent" /\ ~Simulate(cfg.dry_run)
       THEN IF cfg.overwrite
            THEN \E ok \in Outcomes(cfg.dry_run) :
                   IF ~ok
                   THEN /\ RaiseIn(6, "IOError")
                        /\ hist' = [hist EXCEPT !.existed["webroot"] = TRUE]
                        /\ UNCHANGED <<webroot, files, tmpfiles>>
                   ELSE /\ pc' = "step6_mkdir" /\ UNCHANGED failVars
                        /\ hist' = [hist EXCEPT
                                      !.existed["webroot"] = TRUE,
                                      !.removed["webroot"] = ~Simulate(cfg.dry_run)]
                        /\ IF Simulate(cfg.dry_run)
                           THEN UNCHANGED <<webroot, files, tmpfiles>>
                           ELSE webroot_removed
            ELSE /\ RaiseIn(6, "Conflict")
                 /\ hist' = [hist EXCEPT !.existed["webroot"] = TRUE]
                 /\ UNCHANGED <<webroot, files, tmpfiles>>
       ELSE /\ pc' = "step6_mkdir"
            /\ UNCHANGED <<webroot, files, tmpfiles, failVars, hist>>
    /\ UNCHANGED <<cfg, bak, symlink, db, tmpdir, cmds, awVars, sigVars,
                   exitVars, pre>>

\* ------------------------------------------------------------------------
\* Step 6: step_download_and_install_wp
\* ------------------------------------------------------------------------
\* an existing web root is removed under overwrite, a conflict otherwise
step_download_and_install_wp ==
    /\ MainRuns /\ pc = "step6"
    /\ Enter(6)
    /\ state' = [state EXCEPT !.web_root = "/var/www/domain"]
    /\ IF webroot # "absent"
       THEN IF cfg.overwrite
            THEN \E ok \in Outcomes(cfg.dry_run) :
                   IF ~ok
                   THEN /\ RaiseIn(6, "IOError")
                        /\ hist' = [hist EXCEPT !.existed["webroot"] = TRUE]
                        /\ UNCHANGED <<webroot, files, tmpfiles>>
                   ELSE /\ pc' = "step6_mkdir" /\ UNCHANGED failVars
                        /\ hist' = [hist EXCEPT
                                      !.existed["webroot"] = TRUE,
                                      !.removed["webroot"] = ~Simulate(cfg.dry_run)]
                        /\ IF Simulate(cfg.dry_run)
                           THEN UNCHANGED <<webroot, files, tmpfiles>>
                           ELSE webroot_removed
            ELSE /\ RaiseIn(6, "Conflict")
                 /\ hist' = [hist EXCEPT !.existed["webroot"] = TRUE]
                 /\ UNCHANGED <<webroot, files, tmpfiles>>
       ELSE /\ pc' = "step6_mkdir"
            /\ UNCHANGED <<webroot, files, tmpfiles, failVars, hist>>
    /\ UNCHANGED <<cfg, bak, symlink, db, tmpdir, cmds, awVars, sigVars,
                   exitVars, pre>>

\* webroot.mkdir(parents=True, exist_ok=True), skipped when simulating
step_wp_mkdir ==
    /\ MainRuns /\ pc = "step6_mkdir"
    /\ IF Simulate(cfg.dry_run)
       THEN pc' = "step6_mkdtemp" /\ UNCHANGED <<webroot, failVars, hist>>
       ELSE \E ok \in BOOLEAN :
              IF ok
              THEN /\ webroot' = IF webroot = "absent" THEN "created" ELSE webroot
                   /\ hist' = [hist EXCEPT !.recreated["webroot"] = TRUE]
                   /\ pc' = "step6_append" /\ UNCHANGED failVars
              ELSE Raise("IOError") /\ UNCHANGED <<webroot, hist>>
    /\ UNCHANGED <<cfg, state, files, tmpfiles, bak, symlink, db, tmpdir, cmds,
                   step, started, awVars, sigVars, exitVars, pre>>

\* state["created_paths"].append(str(webroot)), after the mkdir
step_wp_append ==
    /\ MainRuns /\ pc = "step6_append"
    /\ state' = [state EXCEPT
                   !.created_paths = Append(@, "/var/www/domain")]
    /\ pc' = "step6_mkdtemp"
    /\ UNCHANGED <<cfg, hostVars, cmds, step, started, awVars, sigVars,
                   exitVars, failVars, histVars>>

\* download_and_extract_wp: tempfile.mkdtemp runs before the mode is tested
download_mkdtemp ==
    /\ MainRuns /\ pc = "step6_mkdtemp"
    /\ \E ok \in BOOLEAN :
          IF ok
          THEN tmpdir' = TRUE /\ pc' = "step6_tmp_append" /\ UNCHANGED failVars
          ELSE Raise("IOError") /\ UNCHANGED tmpdir
    /\ UNCHANGED <<cfg, state, webroot, files, tmpfiles, bak, symlink, db,
                   cmds, step, started, awVars, sigVars, exitVars, histVars>>

\* state["tmp_dirs"].append(str(tmpdir)), after the mkdtemp
download_tmp_append ==
    /\ MainRuns /\ pc = "step6_tmp_append"
    /\ state' = [state EXCEPT !.tmp_dirs = Append(@, "/tmp/wpdl")]
    /\ pc' = "step6_download"
    /\ UNCHANGED <<cfg, hostVars, cmds, step, started, awVars, sigVars,
                   exitVars, failVars, histVars>>

\* download, extract and copy into the web root; returns early when simulating
download_and_extract_wp ==
    /\ MainRuns /\ pc = "step6_download"
    /\ IF Simulate(cfg.dry_run)
       THEN pc' = "step6_wp_config" /\ UNCHANGED <<webroot, failVars>>
       ELSE \E ok \in BOOLEAN :
              IF ok
              THEN /\ webroot' = "deployed"
                   /\ pc' = "step6_wp_config" /\ UNCHANGED failVars
              ELSE Raise("RuntimeError") /\ UNCHANGED webroot
    /\ UNCHANGED <<cfg, state, files, tmpfiles, bak, symlink, db, tmpdir, cmds,
                   step, started, awVars, sigVars, exitVars, histVars>>

\* wp-config.php is written with atomic_write when the sample exists
step_wp_config ==
    /\ MainRuns /\ pc = "step6_wp_config"
    /\ IF webroot = "deployed" /\ ~Simulate(cfg.dry_run)
       THEN /\ awPath' = "wp_config"
            /\ awRet' = "step6_perms"
            /\ awPrev' = files["wp_config"]
            /\ pc' = "atomic_write"
       ELSE pc' = "step6_perms" /\ UNCHANGED awVars
    /\ UNCHANGED <<cfg, state, hostVars, cmds, step, started, sigVars,
                   exitVars, failVars, histVars>>

\* chown and chmod of the tree
step_wp_perms ==
    /\ MainRuns /\ pc = "step6_perms"
    /\ cmds' = run_cmd("chown_webroot", cfg.dry_run)
    /\ \E ok \in Outcomes(cfg.dry_run) :
          IF ok THEN pc' = "step7" /\ UNCHANGED failVars
                ELSE Raise("CommandFailed")
    /\ UNCHANGED <<cfg, state, hostVars, step, started, awVars, sigVars,
                   exitVars, histVars>>

\* ------------------------------------------------------------------------
\* backup_path(path): the file is moved to <name>.bak-<timestamp>; the mode
\* is not consulted
\* ------------------------------------------------------------------------
backup_path ==
    /\ bak' = TRUE
    /\ files' = [files EXCEPT !["nginx_conf"] = "absent"]

\* ------------------------------------------------------------------------
\* Step 7: step_configure_nginx
\* ------------------------------------------------------------------------
\* an existing site configuration is backed up under overwrite, a conflict
\* otherwise; then the new one is written with atomic_write
step_configure_nginx ==
    /\ MainRuns /\ pc = "step7"
    /\ Enter(7)
    /\ state' = [state EXCEPT
                   !.nginx_conf_path = "/etc/nginx/sites-available/domain"]
    /\ IF files["nginx_conf"] # "absent"
       THEN IF cfg.overwrite
            THEN \E ok \in BOOLEAN :
                   IF ok
                   THEN /\ backup_path
                        /\ hist' = [hist EXCEPT !.existed["conf"] = TRUE,
                                                !.removed["conf"] = TRUE]
                        /\ awPath' = "nginx_conf"
                        /\ awRet' = "step7_symlink"
                        /\ awPrev' = "absent"
                        /\ pc' = "atomic_write" /\ UNCHANGED failVars
                   ELSE /\ RaiseIn(7, "IOError")
                        /\ hist' = [hist EXCEPT !.existed["conf"] = TRUE]
                        /\ UNCHANGED <<bak, files, awVars>>
            ELSE /\ RaiseIn(7, "Conflict")
                 /\ hist' = [hist EXCEPT !.existed["conf"] = TRUE]
                 /\ UNCHANGED <<bak, files, awVars>>
       ELSE /\ awPath' = "nginx_conf"
            /\ awRet' = "step7_symlink"
            /\ awPrev' = files["nginx_conf"]
            /\ pc' = "atomic_write"
            /\ UNCHANGED <<bak, files, failVars, hist>>
    /\ UNCHANGED <<cfg, webroot, tmpfiles, symlink, db, tmpdir, cmds, sigVars,
                   exitVars, pre>>

\* ln -sf <conf> /etc/nginx/sites-enabled/
step_nginx_symlink ==
    /\ MainRuns /\ pc = "step7_symlink"
    /\ cmds' = run_cmd("ln_sf", cfg.dry_run)
    /\ \E ok \in Outcomes(cfg.dry_run) :
          IF ok
          THEN /\ symlink' = (symlink \/ ~Simulate(cfg.dry_run))
               /\ pc' = "step7_reload" /\ UNCHANGED failVars
          ELSE Raise("CommandFailed") /\ UNCHANGED symlink
    /\ UNCHANGED <<cfg, state, webroot, files, tmpfiles, bak, db, tmpdir, step,
                   started, awVars, sigVars, exitVars, histVars>>

\* rm default site, nginx -t, systemctl reload nginx
step_nginx_reload ==
    /\ MainRuns /\ pc = "step7_reload"
    /\ cmds' = run_cmd("nginx_reload", cfg.dry_run)
    /\ \E ok \in Outcomes(cfg.dry_run) :
          IF ok THEN pc' = "step8" /\ UNCHANGED failVars
                ELSE Raise("CommandFailed")
    /\ UNCHANGED <<cfg, state, hostVars, step, started, awVars, sigVars,
                   exitVars, histVars>>

\* ------------------------------------------------------------------------
\* Step 8: step_install_ssl
\* ------------------------------------------------------------------------
\* cfg["certbot"] is read by this step alone: it is drawn here
step_install_ssl ==
    /\ MainRuns /\ pc = "step8"
    /\ Enter(8)
    /\ \E certbot \in BOOLEAN :
          IF ~certbot
          THEN pc' = "summary" /\ UNCHANGED <<cmds, failVars>>
          ELSE /\ cmds' = run_cmd("certbot", cfg.dry_run)
               /\ \E ok \in Outcomes(cfg.dry_run) :
                     IF ok THEN pc' = "summary" /\ UNCHANGED failVars
                           ELSE RaiseIn(8, "CommandFailed")
    /\ UNCHANGED <<cfg, state, hostVars, awVars, sigVars, exitVars, histVars>>

\* ------------------------------------------------------------------------
\* main(): end of the try block, except clause, finally clause
\* ------------------------------------------------------------------------
\* all steps done: show_summary, then the finally clause, then exit 0
main_summary ==
    /\ MainRuns /\ pc = "summary"
    /\ pc' = "finally"
    /\ pendingExit' = 0
    /\ UNCHANGED <<cfg, state, hostVars, cmds, step, started, awVars, sigVars,
                   exitCode, failVars, histVars>>

\* where main() goes after step k returns
AfterStep(k) ==
    CASE k = 1 -> "step2" [] k = 2 -> "step3" [] k = 3 -> "step4"
      [] k = 4 -> "step5" [] k = 5 -> "step6" [] k = 6 -> "step7"
      [] k = 7 -> "step8" [] OTHER -> "summary"

\* variant: the except clause logs the error and goes on with the next step
main_except_continue ==
    /\ MainRuns /\ pc = "except"
    /\ pc' = AfterStep(failedStep)
    /\ UNCHANGED <<cfg, state, hostVars, cmds, step, started, awVars, sigVars,
                   exitVars, failVars, histVars>>

\* hist once a removal or a drop has failed
UndoFailed == [hist EXCEPT !.undo_failed = TRUE]

\* the except clause switching the run back to simulation before cleanup
main_except_leaves_execute ==
    /\ MainRuns /\ pc = "except"
    /\ stack' = <<[who |-> "main", cpc |-> "c_webroot", has_cfg |-> TRUE,
                   attempted |-> {}]>>
    /\ cleanups' = cleanups + 1
    /\ hist' = [hist EXCEPT !.reported = TRUE]
    /\ pc' = "cleanup"
    /\ state' = [state EXCEPT !.executing = FALSE]
    /\ UNCHANGED <<cfg, hostVars, cmds, step, started, awVars, signals,
                   exitVars, failVars, pre>>

\* the except clause exiting at once, without calling cleanup_full
main_except_no_cleanup ==
    /\ MainRuns /\ pc = "except"
    /\ hist' = [hist EXCEPT !.reported = TRUE]
    /\ pc' = "finally"
    /\ pendingExit' = 1
    /\ UNCHANGED <<cfg, state, hostVars, cmds, step, started, awVars, sigVars,
                   exitCode, failVars, pre>>

\* a step raised: the except clause logs the error, then calls
\* cleanup_full(cfg)
main_except ==
    /\ MainRuns /\ pc = "except"
    /\ stack' = <<[who |-> "main", cpc |-> "c_webroot", has_cfg |-> TRUE,
                   attempted |-> {}]>>
    /\ cleanups' = cleanups + 1
    /\ hist' = [hist EXCEPT !.reported = TRUE]
    /\ pc' = "cleanup"
    /\ UNCHANGED <<cfg, state, hostVars, cmds, step, started, awVars, signals,
                   exitVars, failVars, pre>>

\* the finally clause: temp dirs are removed in execute mode, only reported
\* in dry-run; then the process ends with the pending status
main_finally ==
    /\ MainRuns /\ pc = "finally"
    /\ IF tmpdir /\ Len(state.tmp_dirs) > 0 /\ ~cfg.dry_run
       THEN \E ok \in BOOLEAN :
              /\ tmpdir' = ~ok
              /\ hist' = IF ok THEN hist ELSE UndoFailed
       ELSE UNCHANGED <<tmpdir, hist>>
    /\ pc' = "exited"
    /\ exitCode' = pendingExit
    /\ UNCHANGED <<cfg, state, webroot, files, tmpfiles, bak, symlink, db,
                   cmds, step, started, awVars, sigVars, pendingExit, failVars,
                   pre>>

\* ------------------------------------------------------------------------
\* cleanup_full(cfg): one frame of `stack` per invocation
\* ------------------------------------------------------------------------
Top == stack[Len(stack)]

SetTop(f) == [stack EXCEPT ![Len(stack)] = f]

InCleanup(c) == exitCode = -1 /\ stack # <<>> /\ Top.cpc = c

\* the undo `undo` was reached; cleanup goes on at `next`
Advance(undo, next) ==
    stack' = SetTop([Top EXCEPT !.cpc = next, !.attempted = @ \cup {undo}])

\* an exception cleanup_full does not catch ends the invocation
Propagate(undo) ==
    stack' = SetTop([Top EXCEPT !.cpc = "c_raised",
                                !.attempted = @ \cup {undo}])

\* cleanup_full reading the web root of a configuration it was not given
cleanup_webroot_any_cfg ==
    /\ InCleanup("c_webroot")
    /\ IF webroot = "absent" \/ Simulate(cfg.dry_run)
       THEN /\ Advance("webroot", "c_symlink")
            /\ UNCHANGED <<webroot, files, tmpfiles, hist>>
       ELSE \E ok \in BOOLEAN :
              IF ok
              THEN /\ webroot_removed /\ Advance("webroot", "c_symlink")
                   /\ UNCHANGED hist
              ELSE /\ Propagate("webroot")
                   /\ hist' = UndoFailed
                   /\ UNCHANGED <<webroot, files, tmpfiles>>
    /\ UNCHANGED <<cfg, state, bak, symlink, db, tmpdir, cmds, pc, step,
                   started, awVars, signals, cleanups, exitVars, failVars,
                   pre>>

\* web root: removed when it exists, whoever created it; not guarded by try.
\* With an empty cfg (signal before last_cfg is stored) cfg["web_root"]
\* raises KeyError.
cleanup_webroot ==
    /\ InCleanup("c_webroot")
    /\ IF ~Top.has_cfg
       THEN /\ stack' = SetTop([Top EXCEPT !.cpc = "c_raised"])
            /\ UNCHANGED <<webroot, files, tmpfiles, hist>>
       ELSE IF webroot = "absent" \/ Simulate(cfg.dry_run)
            THEN /\ Advance("webroot", "c_symlink")
                 /\ UNCHANGED <<webroot, files, tmpfiles, hist>>
            ELSE \E ok \in BOOLEAN :
                   IF ok
                   THEN /\ webroot_removed /\ Advance("webroot", "c_symlink")
                        /\ UNCHANGED hist
                   ELSE /\ Propagate("webroot")
                        /\ hist' = UndoFailed
                        /\ UNCHANGED <<webroot, files, tmpfiles>>
    /\ UNCHANGED <<cfg, state, bak, symlink, db, tmpdir, cmds, pc, step,
                   started, awVars, signals, cleanups, exitVars, failVars,
                   pre>>

\* sites-enabled symlink: Path.exists() follows the link
cleanup_symlink ==
    /\ InCleanup("c_symlink")
    /\ IF ~(symlink /\ files["nginx_conf"] # "absent") \/ Simulate(cfg.dry_run)
       THEN Advance("symlink", "c_conf") /\ UNCHANGED <<symlink, hist>>
       ELSE \E ok \in BOOLEAN :
              IF ok
              THEN /\ symlink' = FALSE /\ Advance("symlink", "c_conf")
                   /\ UNCHANGED hist
              ELSE /\ Propagate("symlink") /\ hist' = UndoFailed
                   /\ UNCHANGED symlink
    /\ UNCHANGED <<cfg, state, webroot, files, tmpfiles, bak, db, tmpdir, cmds,
                   pc, step, started, awVars, signals, cleanups, exitVars,
                   failVars, pre>>

\* site configuration: removed when it exists, without a backup
cleanup_conf ==
    /\ InCleanup("c_conf")
    /\ IF files["nginx_conf"] = "absent" \/ Simulate(cfg.dry_run)
       THEN Advance("conf", "c_db") /\ UNCHANGED <<files, hist>>
       ELSE \E ok \in BOOLEAN :
              IF ok
              THEN /\ files' = [files EXCEPT !["nginx_conf"] = "absent"]
                   /\ Advance("conf", "c_db")
                   /\ UNCHANGED hist
              ELSE /\ Propagate("conf") /\ hist' = UndoFailed
                   /\ UNCHANGED files
    /\ UNCHANGED <<cfg, state, webroot, tmpfiles, bak, symlink, db, tmpdir,
                   cmds, pc, step, started, awVars, signals, cleanups,
                   exitVars, failVars, pre>>

\* cleanup_full clearing the record whether or not the DROP was sent
cleanup_db_forgets ==
    /\ InCleanup("c_db")
    /\ IF cfg.overwrite \/ state.created_db
       THEN /\ cmds' = mysql_exec("sql_cleanup_drop", cfg.dry_run)
            /\ \E ok \in Outcomes(cfg.dry_run) :
                  /\ db' = IF ok /\ ~Simulate(cfg.dry_run) THEN "absent" ELSE db
                  /\ hist' = IF ok THEN hist ELSE UndoFailed
       ELSE UNCHANGED <<cmds, db, hist>>
    /\ Advance("db", "c_tmp")
    /\ state' = [state EXCEPT !.created_db = FALSE]
    /\ UNCHANGED <<cfg, webroot, files, tmpfiles, bak, symlink, tmpdir,
                   pc, step, started, awVars, signals, cleanups, exitVars,
                   failVars, pre>>

\* cleanup_full dropping only a database the run recorded as created
cleanup_db_only_created ==
    /\ InCleanup("c_db")
    /\ IF state.created_db
       THEN /\ cmds' = mysql_exec("sql_cleanup_drop", cfg.dry_run)
            /\ \E ok \in Outcomes(cfg.dry_run) :
                  /\ db' = IF ok /\ ~Simulate(cfg.dry_run) THEN "absent" ELSE db
                  /\ hist' = IF ok THEN hist ELSE UndoFailed
       ELSE UNCHANGED <<cmds, db, hist>>
    /\ Advance("db", "c_tmp")
    /\ UNCHANGED <<cfg, state, webroot, files, tmpfiles, bak, symlink, tmpdir,
                   pc, step, started, awVars, signals, cleanups, exitVars,
                   failVars, pre>>

\* database and user: dropped if created_db or overwrite; failure is caught
cleanup_db ==
    /\ InCleanup("c_db")
    /\ IF cfg.overwrite \/ state.created_db
       THEN /\ cmds' = mysql_exec("sql_cleanup_drop", cfg.dry_run)
            /\ \E ok \in Outcomes(cfg.dry_run) :
                  /\ db' = IF ok /\ ~Simulate(cfg.dry_run) THEN "absent" ELSE db
                  /\ hist' = IF ok THEN hist ELSE UndoFailed
       ELSE UNCHANGED <<cmds, db, hist>>
    /\ Advance("db", "c_tmp")
    /\ UNCHANGED <<cfg, state, webroot, files, tmpfiles, bak, symlink, tmpdir,
                   pc, step, started, awVars, signals, cleanups, exitVars,
                   failVars, pre>>

\* temp dirs recorded in state["tmp_dirs"]: failure is caught
cleanup_tmp ==
    /\ InCleanup("c_tmp")
    /\ IF tmpdir /\ Len(state.tmp_dirs) > 0 /\ ~Simulate(cfg.dry_run)
       THEN \E ok \in BOOLEAN :
              /\ tmpdir' = ~ok
              /\ hist' = IF ok THEN hist ELSE UndoFailed
       ELSE UNCHANGED <<tmpdir, hist>>
    /\ Advance("tmp", "c_done")
    /\ UNCHANGED <<cfg, state, webroot, files, tmpfiles, bak, symlink, db,
                   cmds, pc, step, started, awVars, signals, cleanups,
                   exitVars, failVars, pre>>

\* positions of main() inside its try statement (body and except clause)
InTry == pc \notin {"main", "confirm", "ensure_root", "set_executing",
                    "finally", "exited"}

\* the handler returning to the interrupted code instead of exiting
cleanup_return_resume ==
    /\ exitCode = -1 /\ stack # <<>> /\ Top.cpc \in {"c_done", "c_raised"}
    /\ stack' = <<>>
    /\ IF Top.who = "main"
       THEN pc' = "finally" /\ pendingExit' = 1 /\ UNCHANGED exitCode
       ELSE UNCHANGED <<pc, exitVars>>
    /\ UNCHANGED <<cfg, state, hostVars, cmds, step, started, awVars, signals,
                   cleanups, failVars, histVars>>

\* the cleanup paths ending the process with status 0
cleanup_return_status0 ==
    /\ exitCode = -1 /\ stack # <<>> /\ Top.cpc \in {"c_done", "c_raised"}
    /\ stack' = <<>>
    /\ IF Top.who = "main" \/ InTry
       THEN pc' = "finally" /\ pendingExit' = 0 /\ UNCHANGED exitCode
       ELSE pc' = "exited" /\ exitCode' = 0 /\ UNCHANGED pendingExit
    /\ UNCHANGED <<cfg, state, hostVars, cmds, step, started, awVars, signals,
                   cleanups, failVars, histVars>>

\* cleanup_full has returned or raised.  On the failure path main() goes on
\* to sys.exit(1) through finally.  In the signal handler sys.exit(1) raises
\* SystemExit, which no `except Exception` catches: every frame unwinds, and
\* main()'s finally clause runs if main() was inside the try statement.
cleanup_return ==
    /\ exitCode = -1 /\ stack # <<>> /\ Top.cpc \in {"c_done", "c_raised"}
    /\ stack' = <<>>
    /\ IF Top.who = "main" \/ InTry
       THEN pc' = "finally" /\ pendingExit' = 1 /\ UNCHANGED exitCode
       ELSE pc' = "exited" /\ exitCode' = 1 /\ UNCHANGED pendingExit
    /\ UNCHANGED <<cfg, state, hostVars, cmds, step, started, awVars, signals,
                   cleanups, failVars, histVars>>

\* ------------------------------------------------------------------------
\* signal_handler(sig, frame): SIGINT / SIGTERM at any point of the process
\* ------------------------------------------------------------------------
\* the frames a handler interrupts never run again (the handler ends in
\* sys.exit): only who they belong to is kept
Suspended(f) == [f EXCEPT !.cpc = "suspended", !.attempted = {}]

\* cfg = state.get("last_cfg", {}); cleanup_full(cfg); sys.exit(1)
signal_handler ==
    /\ exitCode = -1
    /\ signals < MaxSignals
    /\ signals' = signals + 1
    /\ cleanups' = cleanups + 1
    /\ stack' = Append([i \in DOMAIN stack |-> Suspended(stack[i])],
                        [who |-> "sig", cpc |-> "c_webroot",
                         has_cfg |-> state.last_cfg, attempted |-> {}])
    /\ hist' = IF signals = 0 THEN [hist EXCEPT !.sig_pc = pc] ELSE hist
    /\ UNCHANGED <<cfg, state, hostVars, cmds, pc, step, started, awVars,
                   exitVars, failVars, pre>>

Next ==
    \/ main_store_cfg
    \/ main_confirm
    \/ ensure_root
    \/ main_set_executing
    \/ step_update_system
    \/ step_install_nginx
    \/ step_install_mysql
    \/ step_install_php
    \/ step_install_php_restart
    \/ atomic_write
    \/ atomic_write_write
    \/ atomic_write_chmod
    \/ atomic_write_replace
    \/ step_create_database
    \/ step_create_database_create
    \/ step_create_database_record
    \/ step_download_and_install_wp
    \/ step_wp_mkdir
    \/ step_wp_append
    \/ download_mkdtemp
    \/ download_tmp_append
    \/ download_and_extract_wp
    \/ step_wp_config
    \/ step_wp_perms
    \/ step_configure_nginx
    \/ step_nginx_symlink
    \/ step_nginx_reload
    \/ step_install_ssl
    \/ main_summary
    \/ main_except
    \/ main_finally
    \/ cleanup_webroot
    \/ cleanup_symlink
    \/ cleanup_conf
    \/ cleanup_db
    \/ cleanup_tmp
    \/ cleanup_return
    \/ signal_handler

Spec == Init /\ [][Next]_vars

\* ------------------------------------------------------------------------
\* Properties
\* ------------------------------------------------------------------------
InAtomicWrite == pc \in {"atomic_write", "aw_write", "aw_chmod", "aw_replace"}

Perform == ~cfg.dry_run

\* C1: in dry-run mode no external command is spawned and the host stays as
\* it was before the run, at every point of the run.
C1_DryRunLeavesHostUntouched ==
    cfg.dry_run => (cmds = {} /\ Host = pre)

\* C2: once step k has failed, step k has been entered exactly once and no
\* step after k is ever entered.
C2_AbortOnFailure ==
    failedStep # 0 =>
        /\ started[failedStep] = 1
        /\ \A j \in Steps : j > failedStep => started[j] = 0

\* C2 witness: step 3 failed, steps 1 and 2 had run, and the process has
\* ended
C2_Witness ==
    /\ failedStep = 3 /\ exitCode = 1
    /\ started[1] = 1 /\ started[2] = 1

\* C3: a run on the failure or interrupt path invokes cleanup_full exactly
\* once, whatever the interleaving of signals with main().
C3_CleanupExactlyOnce ==
    (failedStep # 0 \/ signals > 0) =>
        /\ cleanups <= 1
        /\ (exitCode # -1 => cleanups = 1)

\* C4: execute mode, overwrite off, web root present before the run: step 6
\* fails with the conflict error, the run exits 1 and the web root that was
\* there before is still there at exit.
C4_ScenarioBKeepsWebRoot ==
    (Perform /\ ~cfg.overwrite /\ pre.webroot = "pre" /\ failedStep = 6
       /\ signals = 0 /\ exitCode # -1)
    => (exc = "Conflict" /\ exitCode = 1 /\ webroot = "pre")

\* C5: an invocation of cleanup_full that has ended, normally or by an
\* exception of one undo action, has attempted every undo action.
C5_CleanupIndependence ==
    \A i \in DOMAIN stack :
        (stack[i].has_cfg /\ stack[i].cpc \in {"c_done", "c_raised"})
        => stack[i].attempted = Undos

\* C6: no file written with atomic_write ever holds partial content, and at
\* every point inside atomic_write (signal handler running or not) the
\* destination holds its previous content or the complete new content.
C6_AtomicWrite ==
    /\ \A f \in FileNames : files[f] # "partial"
    /\ InAtomicWrite => files[awPath] \in {awPrev, "new"}

\* C6 witness: a signal is being handled while atomic_write stands between
\* the complete write of the temp file and the rename over an existing file
C6_Witness ==
    /\ pc = "aw_replace" /\ stack # <<>>
    /\ awPrev = "old" /\ files[awPath] = "old" /\ tmpfiles[awPath] = "full"

\* C7: once a call of atomic_write has ended (returned, raised, or was cut
\* short by an interrupt that ended the process) no temp file of it exists.
C7_NoTempFileSurvives ==
    (~InAtomicWrite /\ stack = <<>>) =>
        \A f \in FileNames : tmpfiles[f] = "absent"

\* the step that creates each resource
StepOf(r) == CASE r = "db" -> 5 [] r = "webroot" -> 6 [] OTHER -> 7

\* C8: overwrite off and the resource present when its step starts: the step
\* fails with the conflict error and, when it has failed, has changed nothing.
C8_ConflictWithoutOverwrite ==
    \A r \in Resources :
        (~cfg.overwrite /\ hist.existed[r] /\ signals = 0) =>
            /\ failedStep = StepOf(r) /\ exc = "Conflict"
            /\ pc = "except" =>
                  /\ webroot = pre.webroot /\ db = pre.db
                  /\ files["nginx_conf"] = pre.files["nginx_conf"] /\ ~bak

\* C9: execute mode with overwrite: a resource that existed when its step
\* started and that the step has created again was removed by the step in
\* between, and at the point of creation the old resource is gone.
C9_RemovedBeforeRecreated ==
    (Perform /\ cfg.overwrite) =>
        /\ \A r \in Resources :
              (hist.existed[r] /\ hist.recreated[r]) => hist.removed[r]
        /\ pc = "step5_create" => db = "absent"
        /\ pc = "step6_mkdir" => webroot = "absent"
        /\ (InAtomicWrite /\ awPath = "nginx_conf") =>
              files["nginx_conf"] = "absent"

\* C9 witness: database, web root and site configuration all existed, were
\* removed and have been created again
C9_Witness ==
    /\ Perform /\ cfg.overwrite
    /\ pre.db = "pre" /\ pre.webroot = "pre" /\ pre.files["nginx_conf"] = "old"
    /\ \A r \in Resources :
          hist.existed[r] /\ hist.removed[r] /\ hist.recreated[r]
    /\ db = "run" /\ webroot = "deployed" /\ files["nginx_conf"] = "new" /\ bak

\* C10: every created resource is already recorded in the run state: a
\* database made by the run implies created_db, a web root made by the run
\* implies an entry of created_paths, the temp dir implies an entry of
\* tmp_dirs.
C10_RecordedNoLaterThanPerformed ==
    /\ db = "run" => state.created_db
    /\ webroot \in {"created", "deployed"} => Len(state.created_paths) > 0
    /\ tmpdir => Len(state.tmp_dirs) > 0

\* the positions of main() after step_create_database has returned and
\* before download_and_extract_wp has copied the content into the web root
BeforeDeployment ==
    {"step6", "step6_mkdir", "step6_append", "step6_mkdtemp",
     "step6_tmp_append", "step6_download"}

\* C11: execute mode, one interrupt delivered after the database was created
\* and before the content is deployed, every undo operation succeeding: at
\* exit the database made by the run is dropped, no web root made by the run
\* is left, the temp dir is gone and the exit status is 1.
C11_ScenarioC ==
    (Perform /\ signals = 1 /\ hist.sig_pc \in BeforeDeployment
       /\ ~hist.undo_failed /\ exitCode # -1)
    => /\ exitCode = 1
       /\ db # "run"
       /\ webroot \notin {"created", "deployed"}
       /\ ~tmpdir

\* C12: an interrupt delivered before the configuration is stored in
\* state["last_cfg"]: the handler's cleanup changes nothing on the host and
\* issues no database statement, main() does not go on, and the process
\* ends with status 1.
C12_CleanupWithoutCfgIsNoOp ==
    hist.sig_pc = "main" =>
        /\ Host = pre
        /\ "sql_cleanup_drop" \notin cmds
        /\ pc \in {"main", "exited"}
        /\ exitCode \in {-1, 1}

\* C12 witness: execute mode with overwrite on a host that has a web root,
\* a site configuration and a database; the interrupt came before the
\* configuration was stored and the process has ended
C12_Witness ==
    /\ hist.sig_pc = "main" /\ exitCode = 1
    /\ Perform /\ cfg.overwrite
    /\ pre.webroot = "pre" /\ pre.db = "pre" /\ pre.files["nginx_conf"] = "old"

\* C13: the exit status is 0 or 1; it is 0 exactly when the run was neither
\* interrupted nor failed and either went through all eight steps or was
\* declined at the prompt of execute mode; a step failure, a failure inside
\* cleanup_full (which runs only after a step failure or an interrupt) and
\* an interrupt all end with status 1.
C13_ExitStatus ==
    exitCode # -1 =>
        /\ exitCode \in {0, 1}
        /\ exitCode = 0 <=>
              /\ signals = 0 /\ failedStep = 0
              /\ started[8] = 1 \/ hist.declined
        /\ hist.declined => Perform
        /\ (failedStep # 0 \/ signals > 0) => exitCode = 1

\* C13 witness: the handler's cleanup itself raised (the removal of the
\* deployed web root failed) and the process has ended with status 1
C13_Witness ==
    /\ exitCode = 1 /\ signals = 1 /\ failedStep = 0
    /\ hist.undo_failed /\ webroot = "deployed"

\* C14: once signal_handler has been entered no pipeline step acts again:
\* no step is entered, the run state gets no new record, no command other
\* than the DROP of cleanup_full is issued, nothing on the host is created
\* or written (resources are only removed), and main() moves only to its
\* finally clause and to the exit.
C14_NoResumeAfterInterrupt ==
    [][signals > 0 =>
         /\ started' = started /\ step' = step /\ state' = state
         /\ failedStep' = failedStep
         /\ cmds' \subseteq cmds \cup {"sql_cleanup_drop"}
         /\ pc' \in {pc, "finally", "exited"}
         /\ webroot' \in {webroot, "absent"}
         /\ db' \in {db, "absent"}
         /\ \A f \in FileNames :
               /\ files'[f] \in {files[f], "absent"}
               /\ tmpfiles'[f] \in {tmpfiles[f], "absent"}
         /\ symlink' => symlink
         /\ tmpdir' => tmpdir
         /\ bak' = bak]_vars

\* C14 witness: the interrupt came while step 6 was about to download, and
\* the process has ended without step 7 being entered
C14_Witness ==
    /\ Perform /\ signals = 1 /\ hist.sig_pc = "step6_download"
    /\ exitCode = 1 /\ failedStep = 0
    /\ started[6] = 1 /\ started[7] = 0

\* C15: in dry-run mode no step of cleanup_full, called from the except
\* clause or from the signal handler, removes anything from the host or
\* sends a database statement.
C15_CleanupHonorsMode ==
    [][(cfg.dry_run /\ stack # <<>>) => (Host' = Host /\ cmds' = cmds)]_vars

\* C15 witness: dry run on a host that has everything; step 6 failed after
\* the database was recorded as created, the cleanup of the except clause
\* was interrupted, and the handler's cleanup_full has gone through all its
\* undo actions
C15_Witness ==
    /\ cfg.dry_run /\ failedStep = 6 /\ state.created_db
    /\ Len(stack) = 2 /\ Top.who = "sig"
    /\ Top.cpc = "c_done" /\ Top.attempted = Undos
    /\ webroot = "pre" /\ db = "pre" /\ files["nginx_conf"] = "old"

\* C16: execute mode, a site configuration present before the run: at every
\* point, and so at exit, either the file is still there with its old
\* content or a backup copy of it exists.
C16_SiteConfBackedUp ==
    (Perform /\ pre.files["nginx_conf"] = "old") =>
        (files["nginx_conf"] = "old" \/ bak)

IsPrefix(s, t) == Len(s) <= Len(t) /\ SubSeq(t, 1, Len(s)) = s

\* C17: created_paths and tmp_dirs only grow at their end and created_db
\* never goes from true to false, except in a step of cleanup_full that
\* performs the undo of the record it drops (removes the web root, removes
\* the temp dir, sends the DROP).
C17_RecordsAppendOnly ==
    [][/\ \/ IsPrefix(state.created_paths, state'.created_paths)
          \/ stack # <<>> /\ webroot # "absent" /\ webroot' = "absent"
       /\ \/ IsPrefix(state.tmp_dirs, state'.tmp_dirs)
          \/ stack # <<>> /\ tmpdir /\ ~tmpdir'
       /\ \/ state.created_db => state'.created_db
          \/ stack # <<>> /\ "sql_cleanup_drop" \in cmds']_vars

\* C17 witness: all three records were made, the web root was deployed, and
\* cleanup_full has run to its end after an interrupt with the records
\* still in the run state
C17_Witness ==
    /\ state.created_db
    /\ Len(state.created_paths) = 1 /\ Len(state.tmp_dirs) = 1
    /\ signals = 1 /\ exitCode = 1
    /\ hist.sig_pc = "step7" /\ webroot = "absent" /\ ~tmpdir

\* main() has reached the try statement that runs the steps
PipelineStarted ==
    pc \notin {"main", "confirm", "ensure_root", "set_executing"}

\* C18: from the first step on, in every step of main(), of cleanup_full and
\* of the signal handler, cfg["dry_run"] and state["executing"] keep their
\* values, and executing is the negation of dry_run.
C18_ModeFrozen ==
    [][PipelineStarted =>
         /\ cfg'.dry_run = cfg.dry_run
         /\ state'.executing = state.executing
         /\ started[1] = 1 => state.executing = ~cfg.dry_run]_vars

\* C18 witness: an execute-mode run that was interrupted twice after the
\* database step and has ended, still in execute mode
C18_Witness ==
    /\ Perform /\ state.executing
    /\ started[5] = 1 /\ signals = MaxSignals /\ exitCode = 1

\* C19: execute mode, the process has ended (after success, a step failure
\* or interrupts at any point) and no removal has failed: the temp dir made
\* by download_and_extract_wp does not exist any more.
C19_NoTempDirAtExit ==
    (Perform /\ exitCode # -1 /\ ~hist.undo_failed) => ~tmpdir

\* C20: the cleanup_full of the except clause runs only after a step has
\* failed and its error was logged, while main() waits and the process has
\* not exited; a process that has exited has no cleanup still running; a
\* run with a failed step ends with status 1, also when cleanup itself
\* failed, and, if no interrupt came, after exactly one cleanup_full and
\* with the step's error logged.
C20_CleanupBeforeExit ==
    /\ \A i \in DOMAIN stack :
          stack[i].who = "main" =>
              /\ failedStep # 0 /\ hist.reported
              /\ pc = "cleanup" /\ exitCode = -1
    /\ exitCode # -1 => stack = <<>>
    /\ (failedStep # 0 /\ pc = "finally") => pendingExit = 1
    /\ (failedStep # 0 /\ exitCode # -1) =>
          /\ exitCode = 1
          /\ cleanups >= 1
          /\ signals = 0 => (cleanups = 1 /\ hist.reported)

\* C20 witness: step 6 failed in execute mode, the removal of the web root
\* inside cleanup_full failed too, no interrupt came, and the process has
\* ended with status 1
C20_Witness ==
    /\ Perform /\ failedStep = 6 /\ signals = 0
    /\ hist.reported /\ hist.undo_failed /\ webroot # "absent"
    /\ exitCode = 1

\* C21: the DROP of cleanup_full has been sent only if overwrite is on or
\* created_db is set, and an execute-mode cleanup_full that has gone past
\* its database action has sent it exactly in that case.
C21_DropIffCreatedOrOverwrite ==
    /\ "sql_cleanup_drop" \in cmds => (cfg.overwrite \/ state.created_db)
    /\ \A i \in DOMAIN stack :
          (Perform /\ "db" \in stack[i].attempted) =>
              ("sql_cleanup_drop" \in cmds <=>
                  (cfg.overwrite \/ state.created_db))

\* C21 witness: execute mode with overwrite, step 1 failed, step 5 never
\* ran, and cleanup_full has dropped the database that was there before
C21_Witness ==
    /\ Perform /\ cfg.overwrite /\ failedStep = 1 /\ started[5] = 0
    /\ ~state.created_db /\ pre.db = "pre"
    /\ "sql_cleanup_drop" \in cmds /\ db = "absent"

\* C22: the step index only moves to the next index, and the step it moves
\* to is entered then and only once; a failure is recorded once, for the
\* step that is running; after a failure, and after the last step has
\* returned, no step is entered and no failure is recorded; the pipeline
\* is complete only after step 8, with no failure.
C22_PipelineStateMachine ==
    [][/\ step' \in {step, step + 1}
       /\ \A k \in Steps :
             started'[k] = IF k = step' /\ step' # step THEN 1 ELSE started[k]
       /\ step' # step => started[step'] = 0
       /\ failedStep' # failedStep =>
             /\ failedStep = 0 /\ failedStep' = step' /\ pc' = "except"
       /\ (failedStep # 0 \/ pc \in {"summary", "finally", "exited"}) =>
             /\ step' = step /\ started' = started
             /\ failedStep' = failedStep
       /\ (pc' = "summary" /\ pc # "summary") =>
             /\ step' = 8 /\ failedStep' = 0]_vars

\* C22 witness: an execute-mode run that went through the eight steps in
\* order and ended with status 0
C22_Witness ==
    /\ Perform /\ step = 8 /\ failedStep = 0
    /\ \A k \in Steps : started[k] = 1
    /\ exitCode = 0

\* C23: for every exit status and both values of check, at every point of
\* a run: in execute mode a non-zero status raises when check is set and is
\* returned, non-zero, when it is not; in dry-run mode nothing is spawned
\* and the result has status 0.
C23_RunCmdContract ==
    \A st \in ExitStatuses, check \in BOOLEAN :
        LET r == run_cmd_result(st, check, cfg.dry_run) IN
        /\ Perform =>
              /\ r.spawned
              /\ (st # 0 /\ check) => r.raised
              /\ (st # 0 /\ ~check) => (~r.raised /\ r.returncode = st)
              /\ st = 0 => (~r.raised /\ r.returncode = 0)
        /\ cfg.dry_run =>
              (~r.spawned /\ ~r.raised /\ r.returncode = 0)

\* C23 witness: in execute mode the command of step 1 was spawned and its
\* non-zero status was raised as the step's failure
C23_Witness ==
    /\ Perform /\ state.executing
    /\ failedStep = 1 /\ exc = "CommandFailed" /\ cmds # {}

\* C24: execute mode, all eight steps have returned without a failure: from
\* then on, whatever interrupt arrives before the exit, the web root is
\* deployed, the site configuration is the new one and the database
\* exists.
C24_CompletedInstallationKept ==
    (Perform /\ started[8] = 1 /\ failedStep = 0) =>
        /\ webroot = "deployed"
        /\ files["nginx_conf"] = "new"
        /\ db # "absent"

\* the positions of main() after the configuration is stored and before
\* the try statement that runs the steps
BeforePipeline == {"confirm", "ensure_root", "set_executing"}

\* C25: execute mode, the first interrupt arrives after the configuration
\* was stored and before the pipeline starts: nothing on the host changes
\* and no database statement is sent.
C25_InterruptBeforePipelineIsHarmless ==
    (Perform /\ hist.sig_pc \in BeforePipeline) =>
        (Host = pre /\ cmds = {})

\* C26: overwrite off and a database present before the run: the database
\* is present at every point of the run, and so at exit.
C26_ForeignDatabaseKept ==
    (~cfg.overwrite /\ pre.db = "pre") => db = "pre"

\* C27: execute mode, a step has failed, no interrupt came, no removal
\* failed and the process has ended: nothing the run created is left, be it
\* the database, the web root, the temp dir, the site configuration or its
\* symlink.
C27_PartialStepUndone ==
    (Perform /\ failedStep # 0 /\ signals = 0 /\ ~hist.undo_failed
       /\ exitCode # -1)
    => /\ db # "run"
       /\ webroot \notin {"created", "deployed"}
       /\ ~tmpdir
       /\ files["nginx_conf"] # "new"
       /\ ~symlink

\* C28: while a step has been entered or cleanup_full is running on the
\* stored configuration, state["executing"] is the negation of
\* cfg["dry_run"], and the helpers' test simulates exactly in dry-run mode.
C28_ModeFlagsAgree ==
    (started[1] = 1 \/ \E i \in DOMAIN stack : stack[i].has_cfg) =>
        /\ state.executing = ~cfg.dry_run
        /\ Simulate(cfg.dry_run) <=> cfg.dry_run

\* C29: the user has declined the confirmation of execute mode: the process
\* has exited with status 0, no step was entered, cleanup_full was never
\* called, no command was spawned and the host is as it was.
C29_DeclinedRunDoesNothing ==
    hist.declined =>
        /\ Perform /\ pc = "exited" /\ exitCode = 0
        /\ \A k \in Steps : started[k] = 0
        /\ cleanups = 0 /\ stack = <<>>
        /\ cmds = {} /\ Host = pre

\* C29 witness: declined in execute mode with overwrite on a host that has
\* a web root, a site configuration and a database
C29_Witness ==
    /\ hist.declined /\ cfg.overwrite /\ exitCode = 0
    /\ webroot = "pre" /\ db = "pre" /\ files["nginx_conf"] = "old"

\* C30: dry-run mode, overwrite off, no interrupt, the process has ended.
\* With a web root present before the run step 6 failed with the conflict
\* error and step 7 was not entered; with a site configuration present
\* step 7, if it was reached, failed with the conflict error; in both cases
\* step 8 was not entered, cleanup_full ran once, the web root, the files
\* and the database are as before the run, no command was spawned, and the
\* exit status is 1.
C30_ConflictInDryRun ==
    (cfg.dry_run /\ ~cfg.overwrite /\ signals = 0 /\ exitCode # -1) =>
        /\ pre.webroot = "pre" =>
              /\ failedStep = 6 /\ exc = "Conflict" /\ started[7] = 0
        /\ (pre.files["nginx_conf"] = "old" /\ started[7] = 1) =>
              /\ failedStep = 7 /\ exc = "Conflict"
        /\ (pre.webroot = "pre" \/ pre.files["nginx_conf"] = "old") =>
              /\ started[8] = 0 /\ failedStep # 0
              /\ cleanups = 1 /\ hist.reported
              /\ webroot = pre.webroot /\ files = pre.files /\ db = pre.db
              /\ cmds = {}
              /\ exitCode = 1

\* C30 witness: a dry run without overwrite on a host that has only the
\* site configuration: steps 1 to 6 were simulated, step 7 failed with the
\* conflict error and the process has ended with status 1
C30_Witness ==
    /\ cfg.dry_run /\ ~cfg.overwrite /\ signals = 0
    /\ pre.webroot = "absent" /\ pre.files["nginx_conf"] = "old"
    /\ started[6] = 1 /\ failedStep = 7 /\ exc = "Conflict"
    /\ exitCode = 1

====
